---- MODULE Spec2Model ----
(***************************************************************************)
(* Model of the codebase indexer (indexer.py) and of the tool server that  *)
(* holds it (server.py).  Python strings are sequences of one-character    *)
(* strings, so that lower(), slicing and the substring test are computed.  *)
(* Objects held in several places (a component in the component list and   *)
(* in a lookup table) are referred to by their position in the component   *)
(* list, which is append-only.                                             *)
(***************************************************************************)
EXTENDS Integers, Sequences, FiniteSets, TLC

(* ------------------------------ bounds -------------------------------- *)
\* number of files in the indexed tree
MaxFiles == 2
\* number of index_codebase runs on one indexer object
MaxRuns == 2

(* ------------------------------ strings ------------------------------- *)
UpperLetters == <<"A","B","C","D","E","F","G","H","I","J","K","L","M","N","O","P","Q","R","S","T","U","V","W","X","Y","Z">>
LowerLetters == <<"a","b","c","d","e","f","g","h","i","j","k","l","m","n","o","p","q","r","s","t","u","v","w","x","y","z">>
Digits == <<"0","1","2","3","4","5","6","7","8","9">>
Range(s) == {s[i] : i \in 1..Len(s)}
UpperSet == Range(UpperLetters)
LetterSet == UpperSet \cup Range(LowerLetters)
DigitSet == Range(Digits)
Whitespace == {" ", "\n", "\t"}

\* str.lower() on one character
LowerOf ==
  [c \in UpperSet |-> LowerLetters[CHOOSE i \in 1..Len(UpperLetters) : UpperLetters[i] = c]]
LowerChar(c) == IF c \in UpperSet THEN LowerOf[c] ELSE c

\* str.lower()
lower(s) == [i \in 1..Len(s) |-> LowerChar(s[i])]

\* a substring test that finds the empty string nowhere
ContainsNonEmpty(hay, needle) ==
  /\ needle # <<>>
  /\ \E i \in 0..(Len(hay) - Len(needle)) :
        \A k \in 1..Len(needle) : hay[i + k] = needle[k]

\* Python's `needle in hay` on strings
Contains(hay, needle) ==
  \E i \in 0..(Len(hay) - Len(needle)) :
     \A k \in 1..Len(needle) : hay[i + k] = needle[k]

\* s[:n] for n >= 0
Prefix(s, n) == SubSeq(s, 1, IF n < Len(s) THEN n ELSE Len(s))

\* s[i:] with a 1-based first position
From(s, i) == SubSeq(s, i, Len(s))

StartsWith(s, p) == Len(p) <= Len(s) /\ SubSeq(s, 1, Len(p)) = p
EndsWith(s, p) == Len(p) <= Len(s) /\ SubSeq(s, Len(s) - Len(p) + 1, Len(s)) = p

\* sep.join(parts)
RECURSIVE Join(_, _)
Join(parts, sep) ==
  IF parts = <<>> THEN <<>>
  ELSE IF Len(parts) = 1 THEN parts[1]
  ELSE parts[1] \o sep \o Join(Tail(parts), sep)

\* s.count(c) for a one-character c
Count(s, c) == Cardinality({i \in 1..Len(s) : s[i] = c})

\* s.find(c, start) with 1-based positions; 0 when absent (Python's -1)
Find(s, c, start) ==
  IF \E i \in start..Len(s) : s[i] = c
    THEN CHOOSE i \in start..Len(s) : s[i] = c /\ \A j \in start..(i - 1) : s[j] # c
    ELSE 0

\* s.split('\n')
RECURSIVE SplitLines(_)
SplitAt(s, p) ==
  IF p = 0 THEN <<s>> ELSE <<SubSeq(s, 1, p - 1)>> \o SplitLines(From(s, p + 1))
SplitLines(s) == SplitAt(s, Find(s, "\n", 1))

\* len(s.splitlines()): no line for the empty string or after a final newline
SplitlinesLen(s) ==
  IF s = <<>> THEN 0
  ELSE Count(s, "\n") + (IF s[Len(s)] = "\n" THEN 0 ELSE 1)

\* s.strip()
RECURSIVE LStrip(_)
LStrip(s) == IF s # <<>> /\ s[1] \in Whitespace THEN LStrip(Tail(s)) ELSE s
RECURSIVE RStrip(_)
RStrip(s) ==
  IF s # <<>> /\ s[Len(s)] \in Whitespace THEN RStrip(SubSeq(s, 1, Len(s) - 1)) ELSE s
Strip(s) == RStrip(LStrip(s))

\* a Python value that may be str or bytes (ast.Constant.value, a dict key)
StrVal(s) == [k |-> "str", v |-> s]
BytesVal(s) == [k |-> "bytes", v |-> s]
\* truth value of a str or bytes object
Truthy(val) == val.v # <<>>

\* dict.get(key, default) on a dict with string keys
Get(m, key, default) == IF key \in DOMAIN m THEN m[key] ELSE default
EmptyDict == [k \in {} |-> 0]

\* an optional argument: None, or a value
None == <<>>
Some(x) == <<x>>

\* the outcome of a call: a returned value, or an exception raised
Ok(x) == [ok |-> TRUE, v |-> x]
Raise == [ok |-> FALSE, v |-> <<>>]

(* --------------------------- CodeComponent ---------------------------- *)
ComponentFields ==
  {"type", "name", "filepath", "line_start", "line_end", "docstring",
   "signature", "decorators", "parent_class", "imports", "metadata"}
\* the dataclass fields that have no default value
RequiredFields == {"type", "name", "filepath", "line_start", "line_end"}

\* the dataclass constructor, every field given
CodeComponent(type, name, filepath, line_start, line_end, docstring, signature, decorators, parent_class, imports, metadata) ==
  [type |-> type, name |-> name, filepath |-> filepath,
   line_start |-> line_start, line_end |-> line_end, docstring |-> docstring,
   signature |-> signature, decorators |-> decorators,
   parent_class |-> parent_class, imports |-> imports, metadata |-> metadata]

(* ---------------------------- path filter ----------------------------- *)
EXCLUDE_DIRS ==
  {<<".","v","e","n","v">>, <<"v","e","n","v">>, <<"_","_","p","y","c","a","c","h","e","_","_">>, <<".","g","i","t">>, <<".","p","y","t","e","s","t","_","c","a","c","h","e">>,
   <<"n","o","d","e","_","m","o","d","u","l","e","s">>, <<".","i","p","y","n","b","_","c","h","e","c","k","p","o","i","n","t","s">>, <<"i","n","s","t","a","n","c","e">>, <<".","d","a","t","a","_","v","e","r","s","i","o","n","s">>}

\* a glob pattern of the form *suffix (star) or a literal file name
EXCLUDE_PATTERNS ==
  {[star |-> TRUE, lit |-> <<".","p","y","c">>], [star |-> TRUE, lit |-> <<".","p","y","o">>],
   [star |-> TRUE, lit |-> <<".","s","o">>], [star |-> TRUE, lit |-> <<".","d","y","l","i","b">>],
   [star |-> FALSE, lit |-> <<".","D","S","_","S","t","o","r","e">>], [star |-> TRUE, lit |-> <<".","e","g","g","-","i","n","f","o">>]}

\* the directories above the project root (PROJECT_ROOT of server.py)
PROJECT_ROOT == << <<"s","r","v">>, <<"a","p","p">> >>

\* Path.match for a pattern without a separator: the last path segment
PathMatch(name, pattern) ==
  IF pattern.star THEN EndsWith(name, pattern.lit) ELSE name = pattern.lit

\* relparts: the path below the project root, one entry per segment
FileName(relparts) == relparts[Len(relparts)]
ParentNames(relparts) ==
  Range(PROJECT_ROOT) \cup {relparts[i] : i \in 1..(Len(relparts) - 1)}

should_index_path(relparts) ==
  /\ \A parent \in ParentNames(relparts) : parent \notin EXCLUDE_DIRS
  /\ \A pattern \in EXCLUDE_PATTERNS : ~PathMatch(FileName(relparts), pattern)

\* str(filepath.relative_to(project_root))
RelPath(relparts) == Join(relparts, <<"/">>)

(* ------------------------- Python syntax trees ------------------------ *)
\* expressions: what ast.parse yields for a base class or a decorator
Name(id) == [e |-> "Name", id |-> id]
Attribute(value, attr) == [e |-> "Attribute", value |-> value, attr |-> attr, deep |-> FALSE]
\* an attribute chain nested deeper than the interpreter's recursion limit
DeepAttribute(attr) == [e |-> "Attribute", value |-> Name(<<>>), attr |-> attr, deep |-> TRUE]
Call(func, args) == [e |-> "Call", func |-> func, args |-> args]
Constant(value) == [e |-> "Constant", value |-> value]
\* an expression of another class, such as Generic[T]; `at` is the address
\* of the node object
Subscript(at) == [e |-> "Subscript", at |-> at]

\* statements
ClassDef(name, bases, decorator_list, doc, lineno, end_lineno, body) ==
  [t |-> "ClassDef", name |-> name, bases |-> bases,
   decorator_list |-> decorator_list, doc |-> doc, lineno |-> lineno,
   end_lineno |-> end_lineno, body |-> body]
FunctionDef(name, args, decorator_list, doc, lineno, end_lineno, body) ==
  [t |-> "FunctionDef", name |-> name, args |-> args,
   decorator_list |-> decorator_list, doc |-> doc, lineno |-> lineno,
   end_lineno |-> end_lineno, body |-> body]
Import(names) == [t |-> "Import", names |-> names, body |-> <<>>]
ImportFrom(module) == [t |-> "ImportFrom", module |-> module, body |-> <<>>]
Module(doc, body) == [t |-> "Module", doc |-> doc, body |-> body]

\* The tree ast.parse builds anew at each call: the same nodes, allocated
\* where the interpreter finds room (heap).
RECURSIVE Placed(_, _)
Placed(node, heap) ==
  IF "e" \in DOMAIN node
    THEN IF node.e = "Subscript" THEN [node EXCEPT !.at = heap] ELSE node
  ELSE IF node.t = "ClassDef"
    THEN [node EXCEPT !.bases = [i \in DOMAIN @ |-> Placed(@[i], heap)],
                      !.decorator_list = [i \in DOMAIN @ |-> Placed(@[i], heap)],
                      !.body = [i \in DOMAIN @ |-> Placed(@[i], heap)]]
  ELSE IF node.t = "FunctionDef"
    THEN [node EXCEPT !.decorator_list = [i \in DOMAIN @ |-> Placed(@[i], heap)],
                      !.body = [i \in DOMAIN @ |-> Placed(@[i], heap)]]
  ELSE IF node.t = "Module"
    THEN [node EXCEPT !.body = [i \in DOMAIN @ |-> Placed(@[i], heap)]]
  ELSE node
\* the files of a tree as one run of the indexer reads and parses them
Parsed(fs, heap) ==
  [i \in DOMAIN fs |->
     IF "tree" \in DOMAIN fs[i] THEN [fs[i] EXCEPT !.tree = Placed(@, heap)]
     ELSE fs[i]]

\* ast.walk: breadth first, the children of a node queued when it is taken
RECURSIVE WalkQueue(_)
WalkQueue(todo) ==
  IF todo = <<>> THEN <<>>
  ELSE <<Head(todo)>> \o WalkQueue(Tail(todo) \o Head(todo).body)
Walk(tree) == WalkQueue(<<tree>>)

\* str(node) of a node that is neither a Name nor an Attribute
NodeRepr(node) == <<"<","a","s","t",".","S","u","b","s","c","r","i","p","t"," ","o","b","j","e","c","t"," ","a","t"," ">> \o node.at \o <<">">>

\* f"{inner}.{attr}", inner being the outcome of the call that renders it
Dotted(inner, attr) == IF inner.ok THEN Ok(inner.v \o <<".">> \o attr) ELSE Raise

RECURSIVE _get_name(_)
_get_name(node) ==
  IF node.e = "Name" THEN Ok(node.id)
  ELSE IF node.e = "Attribute"
    THEN IF node.deep THEN Raise ELSE Dotted(_get_name(node.value), node.attr)
  ELSE Ok(NodeRepr(node))

RECURSIVE _get_decorator_name(_)
_get_decorator_name(node) ==
  IF node.e = "Name" THEN Ok(node.id)
  ELSE IF node.e = "Attribute"
    THEN IF node.deep THEN Raise ELSE Dotted(_get_name(node.value), node.attr)
  ELSE IF node.e = "Call" THEN _get_decorator_name(node.func)
  ELSE Ok(NodeRepr(node))

\* a list comprehension over calls that may raise: the list, or the exception
AllOk(outcomes) ==
  IF \E i \in 1..Len(outcomes) : ~outcomes[i].ok THEN Raise
  ELSE Ok([i \in 1..Len(outcomes) |-> outcomes[i].v])
\* [self._get_name(base) for base in node.bases]
BaseNames(bases) == AllOk([i \in 1..Len(bases) |-> _get_name(bases[i])])
\* [self._get_decorator_name(dec) for dec in node.decorator_list]
DecoratorNames(decorator_list) ==
  AllOk([i \in 1..Len(decorator_list) |-> _get_decorator_name(decorator_list[i])])

RECURSIVE RoutePathFrom(_)
RoutePathFrom(decorator_list) ==
  IF decorator_list = <<>> THEN StrVal(<<>>)
  ELSE IF /\ Head(decorator_list).e = "Call"
          /\ Head(decorator_list).func.e = "Attribute"
          /\ Head(decorator_list).func.attr = <<"r","o","u","t","e">>
          /\ Head(decorator_list).args # <<>>
          /\ Head(decorator_list).args[1].e = "Constant"
    THEN Head(decorator_list).args[1].value
    ELSE RoutePathFrom(Tail(decorator_list))
_extract_route_path(node) == RoutePathFrom(node.decorator_list)

\* node.end_lineno or node.lineno
EndLine(node) == IF node.end_lineno # 0 THEN node.end_lineno ELSE node.lineno

\* the components appended by one call, and whether it raised part way
Done(comps) == [ok |-> TRUE, comps |-> comps]
Failed(comps) == [ok |-> FALSE, comps |-> comps]
\* one call and what follows it: the exception of the call ends the rest
Then(first, rest) ==
  IF ~first.ok THEN first ELSE [ok |-> rest.ok, comps |-> first.comps \o rest.comps]

\* metadata={'route_path': route_path} if route_path else {}
RouteMetadata(route_path) ==
  IF Truthy(route_path) THEN [route_path |-> route_path] ELSE EmptyDict

\* _index_function once the decorator names are computed
FunctionComponent(node, filepath, imports, parent_class, decorators) ==
  IF ~decorators.ok THEN Failed(<<>>)
  ELSE Done(<< CodeComponent(
                 IF \E i \in 1..Len(decorators.v) :
                      Contains(lower(decorators.v[i]), <<"r","o","u","t","e">>)
                   THEN "route" ELSE "function",
                 node.name, filepath, node.lineno, EndLine(node), node.doc,
                 node.name \o <<"(">> \o Join(node.args, <<","," ">>) \o <<")">>,
                 decorators.v, parent_class, imports,
                 RouteMetadata(_extract_route_path(node))) >>)

_index_function(node, filepath, imports, parent_class) ==
  FunctionComponent(node, filepath, imports, parent_class,
                    DecoratorNames(node.decorator_list))

\* the loop over node.body of _index_class
RECURSIVE IndexMethods(_, _, _, _)
IndexMethods(items, filepath, imports, class_name) ==
  IF items = <<>> THEN Done(<<>>)
  ELSE IF Head(items).t # "FunctionDef"
    THEN IndexMethods(Tail(items), filepath, imports, class_name)
  ELSE Then(_index_function(Head(items), filepath, imports, class_name),
            IndexMethods(Tail(items), filepath, imports, class_name))

\* _index_class once the decorator and base names are computed
ClassComponents(node, filepath, imports, decorators, bases) ==
  IF ~decorators.ok \/ ~bases.ok THEN Failed(<<>>)
  ELSE Then(Done(<< CodeComponent("class", node.name, filepath, node.lineno,
                                  EndLine(node), node.doc, <<>>, decorators.v,
                                  <<>>, imports, [bases |-> bases.v]) >>),
            IndexMethods(node.body, filepath, imports, node.name))

_index_class(node, filepath, imports) ==
  ClassComponents(node, filepath, imports, DecoratorNames(node.decorator_list),
                  BaseNames(node.bases))

\* the import names gathered by the first walk of _index_python_file
RECURSIVE ImportsOf(_)
ImportsOf(nodes) ==
  IF nodes = <<>> THEN <<>>
  ELSE (IF Head(nodes).t = "Import" THEN Head(nodes).names
        ELSE IF Head(nodes).t = "ImportFrom" /\ Head(nodes).module # <<>>
          THEN <<Head(nodes).module>>
        ELSE <<>>) \o ImportsOf(Tail(nodes))

\* the second walk of _index_python_file: classes and functions
RECURSIVE IndexNodes(_, _, _)
IndexNodes(nodes, rel_path, imports) ==
  IF nodes = <<>> THEN Done(<<>>)
  ELSE IF Head(nodes).t = "ClassDef"
    THEN Then(_index_class(Head(nodes), rel_path, imports),
              IndexNodes(Tail(nodes), rel_path, imports))
  ELSE IF Head(nodes).t = "FunctionDef"
    THEN Then(_index_function(Head(nodes), rel_path, imports, <<>>),
              IndexNodes(Tail(nodes), rel_path, imports))
  ELSE IndexNodes(Tail(nodes), rel_path, imports)

(* ----------------------------- extractors ----------------------------- *)
\* An extractor's effect on the indexer, as the try block leaves it: the
\* path added to files_indexed (counted), the components appended before
\* the block ended, and whether it ended by an exception (ok = FALSE).
Extracted(ok, counted, comps) == [ok |-> ok, counted |-> counted, comps |-> comps]

\* the file component of a Python file and what the second walk appends
PythonComponents(f, rel_path, imports, nodes) ==
  Extracted(nodes.ok, TRUE,
    << CodeComponent("file", FileName(f.parts), rel_path, 1, f.nlines,
                     f.tree.doc, <<>>, <<>>, <<>>, imports,
                     [language |-> "python", size |-> f.size]) >> \o nodes.comps)

\* the try block of _index_python_file once the imports are gathered
PythonWalk(f, rel_path, imports) ==
  PythonComponents(f, rel_path, imports, IndexNodes(Walk(f.tree), rel_path, imports))

\* a Python file: parts, readable, parses, nlines, size, tree
PythonFileOutcome(f) ==
  IF ~f.readable \/ ~f.parses THEN Extracted(FALSE, FALSE, <<>>)
  ELSE PythonWalk(f, RelPath(f.parts), ImportsOf(Walk(f.tree)))

\* length of the docstring preview of a SQL file
PreviewChars == 500

IdStart == LetterSet \cup {"_"}
IdChar == IdStart \cup DigitSet

\* the first position from i on whose character is not in the set
FirstOf(stops, otherwise) ==
  IF stops = {} THEN otherwise ELSE CHOOSE p \in stops : \A o \in stops : p <= o
SkipWhile(s, i, set) ==
  FirstOf({p \in i..Len(s) : s[p] \notin set}, IF i > Len(s) THEN i ELSE Len(s) + 1)

\* The regular expression of _index_sql_file, tried at position i:
\* CREATE\s+TABLE\s+(?:IF\s+NOT\s+EXISTS\s+)?([a-z_][a-z0-9_]*), ignoring case.
\* \s+ from position i: the position after it, or 0
SpaceAt(i, after) == IF after > i THEN after ELSE 0
\* a keyword and \s+ at position i: the position after them, or 0
KeywordAt(s, i, word) ==
  IF /\ i # 0
     /\ i + Len(word) - 1 <= Len(s)
     /\ lower(SubSeq(s, i, i + Len(word) - 1)) = word
    THEN SpaceAt(i + Len(word), SkipWhile(s, i + Len(word), Whitespace))
    ELSE 0
\* an identifier at position i: the position after it, or 0
IdentifierAt(s, i) ==
  IF i # 0 /\ i <= Len(s) /\ s[i] \in IdStart THEN SkipWhile(s, i + 1, IdChar) ELSE 0
\* the match, its name from nameAt up to stop
MatchTo(s, i, nameAt, stop) ==
  IF stop = 0 THEN [found |-> FALSE, start |-> i, stop |-> i, name |-> <<>>]
  ELSE [found |-> TRUE, start |-> i, stop |-> stop, name |-> SubSeq(s, nameAt, stop - 1)]
MatchName(s, i, nameAt) == MatchTo(s, i, nameAt, IdentifierAt(s, nameAt))
\* the optional group is taken when a name follows it
MatchGuard(s, i, afterTable, afterGuard) ==
  IF IdentifierAt(s, afterGuard) # 0 THEN MatchName(s, i, afterGuard)
  ELSE MatchName(s, i, afterTable)
MatchTable(s, i, afterTable) ==
  MatchGuard(s, i, afterTable,
    KeywordAt(s, KeywordAt(s, KeywordAt(s, afterTable, <<"i","f">>), <<"n","o","t">>), <<"e","x","i","s","t","s">>))
CreateTableAt(s, i) ==
  MatchTable(s, i, KeywordAt(s, KeywordAt(s, i, <<"c","r","e","a","t","e">>), <<"t","a","b","l","e">>))

\* re.finditer: the matches from left to right, none overlapping
RECURSIVE NextCreateTables(_, _, _)
MatchAndRest(s, hits, m) == <<m>> \o NextCreateTables(s, hits, m.stop)
NextCreateTables(s, hits, i) ==
  IF {j \in hits : j >= i} = {} THEN <<>>
  ELSE MatchAndRest(s, hits, CreateTableAt(s, FirstOf({j \in hits : j >= i}, 0)))
FindCreateTables(s) ==
  NextCreateTables(s, {j \in 1..Len(s) : CreateTableAt(s, j).found}, 1)

\* content[:end_pos], end_pos found by content.find(';', match.start())
UpToSemicolon(content, semicolon) ==
  IF semicolon = 0 THEN content ELSE Prefix(content, semicolon - 1)
TableComponent(content, rel_path, m) ==
  CodeComponent("table", m.name, rel_path,
                Count(Prefix(content, m.start - 1), "\n") + 1,
                Count(UpToSemicolon(content, Find(content, ";", m.start)), "\n") + 1,
                <<>>, <<>>, <<>>, <<>>, <<>>, [language |-> "sql"])

\* the file component of a SQL file and one component per match
SqlComponents(f, content, rel_path, matches) ==
  Extracted(TRUE, TRUE,
    << CodeComponent("file", FileName(f.parts), rel_path, 1,
                     SplitlinesLen(content), Prefix(content, PreviewChars),
                     <<>>, <<>>, <<>>, <<>>,
                     [language |-> "sql", size |-> Len(content),
                      content |-> content]) >> \o
    [k \in 1..Len(matches) |-> TableComponent(content, rel_path, matches[k])])

\* a SQL file: parts, readable, text
SqlFileOutcome(f) ==
  IF ~f.readable THEN Extracted(FALSE, FALSE, <<>>)
  ELSE SqlComponents(f, f.text, RelPath(f.parts), FindCreateTables(f.text))

\* the summary of a Markdown file: its first lines, joined and cut
SummaryLines == 3
SummaryChars == 200

\* re.search(r'^#\s+(.+)$', content, re.MULTILINE): the position of the
\* first character of group 1 for a match starting at i, or 0
LastOf(starts) ==
  IF starts = {} THEN 0 ELSE CHOOSE p \in starts : \A o \in starts : o <= p
GroupStart(s, i, wsEnd) ==
  LastOf({p \in (i + 2)..wsEnd : p <= Len(s) /\ s[p] # "\n"})
TitleStartAt(s, i) ==
  IF (i = 1 \/ s[i - 1] = "\n") /\ s[i] = "#"
    THEN GroupStart(s, i, SkipWhile(s, i + 1, Whitespace))
    ELSE 0
\* group 1: from p to the end of its line
LineFrom(s, p, newline) == SubSeq(s, p, IF newline = 0 THEN Len(s) ELSE newline - 1)
GroupAt(s, p) == LineFrom(s, p, Find(s, "\n", p))
TitleOf(s) ==
  IF {i \in 1..Len(s) : TitleStartAt(s, i) # 0} = {} THEN None
  ELSE Some(GroupAt(s, TitleStartAt(s, FirstOf({i \in 1..Len(s) : TitleStartAt(s, i) # 0}, 0))))

\* Path.stem: the name without its last suffix
StemAt(name, last) ==
  IF 1 < last /\ last < Len(name) THEN SubSeq(name, 1, last - 1) ELSE name
Stem(name) == StemAt(name, LastOf({i \in 1..Len(name) : name[i] = "."}))

RECURSIVE SummaryOf(_, _)
SummaryOf(lines, taken) ==
  IF lines = <<>> \/ taken >= SummaryLines THEN <<>>
  ELSE IF Strip(Head(lines)) # <<>> /\ ~StartsWith(Head(lines), <<"#">>)
    THEN <<Strip(Head(lines))>> \o SummaryOf(Tail(lines), taken + 1)
  ELSE SummaryOf(Tail(lines), taken)

\* title_match.group(1) if title_match else filepath.stem
TitleOr(title_match, name) == IF title_match # None THEN title_match[1] ELSE Stem(name)

\* the file component of a Markdown file
MarkdownComponents(f, content, rel_path, lines) ==
  Extracted(TRUE, TRUE,
    << CodeComponent("file", FileName(f.parts), rel_path, 1, Len(lines),
                     Prefix(Join(SummaryOf(lines, 0), <<" ">>), SummaryChars),
                     <<>>, <<>>, <<>>, <<>>,
                     [language |-> "markdown",
                      title |-> TitleOr(TitleOf(content), FileName(f.parts)),
                      size |-> Len(content), content |-> content]) >>)

\* a Markdown file: parts, readable, text
MarkdownFileOutcome(f) ==
  IF ~f.readable THEN Extracted(FALSE, FALSE, <<>>)
  ELSE MarkdownComponents(f, f.text, RelPath(f.parts), SplitLines(f.text))

(* ------------------------------ indexer ------------------------------- *)
\* CodebaseIndexer.__init__
NewIndexer ==
  [components |-> <<>>, files_indexed |-> {}, routes |-> EmptyDict,
   models |-> EmptyDict, tables |-> EmptyDict, functions |-> EmptyDict,
   classes |-> EmptyDict]

\* an extractor that appends its components and does not record the path
ApplyUncounted(self, f, outcome) ==
  [self EXCEPT !.components = @ \o outcome.comps]

\* what the try block of an extractor leaves in the indexer
Apply(self, f, outcome) ==
  [self EXCEPT
     !.files_indexed = IF outcome.counted THEN @ \cup {RelPath(f.parts)} ELSE @,
     !.components = @ \o outcome.comps]

_index_python_file(self, f) == Apply(self, f, PythonFileOutcome(f))
_index_sql_file(self, f) == Apply(self, f, SqlFileOutcome(f))
_index_markdown_file(self, f) == Apply(self, f, MarkdownFileOutcome(f))

\* dict.setdefault(key, value): a key already present keeps its value
DictSetDefault(d, key, value) ==
  [k \in (DOMAIN d) \cup {key} |-> IF k \in DOMAIN d THEN d[k] ELSE value]

\* dict[key] = value
DictSet(d, key, value) ==
  [k \in (DOMAIN d) \cup {key} |-> IF k = key THEN value ELSE d[k]]

\* the body of the loop of _build_lookup_tables for the component at
\* position i; the tables hold positions in self.components
BuildOne(self, i) ==
  LET comp == self.components[i]
  IN IF comp.type = "route"
       THEN LET route_path == Get(comp.metadata, "route_path", StrVal(comp.name))
            IN [self EXCEPT !.routes = DictSet(@, route_path, i)]
     ELSE IF \/ comp.type = "model"
             \/ /\ comp.type = "class"
                /\ \E b \in 1..Len(Get(comp.metadata, "bases", <<>>)) :
                      Contains(comp.metadata.bases[b], <<"M","o","d","e","l">>)
       THEN [self EXCEPT !.models = DictSet(@, comp.name, i),
                         !.components[i].type = "model"]
     ELSE IF comp.type = "table"
       THEN [self EXCEPT !.tables = DictSet(@, comp.name, i)]
     ELSE IF comp.type = "function"
       THEN [self EXCEPT !.functions =
               DictSet(@, comp.name, Get(@, comp.name, <<>>) \o <<i>>)]
     ELSE IF comp.type = "class"
       THEN [self EXCEPT !.classes = DictSet(@, comp.name, i)]
     ELSE self

RECURSIVE BuildFrom(_, _)
BuildFrom(self, i) ==
  IF i > Len(self.components) THEN self ELSE BuildFrom(BuildOne(self, i), i + 1)
_build_lookup_tables(self) == BuildFrom(self, 1)

\* the files one rglob of index_codebase yields, filtered, in tree order
PythonFiles(fs) ==
  SelectSeq(fs, LAMBDA f : EndsWith(FileName(f.parts), <<".","p","y">>) /\ should_index_path(f.parts))
SqlFiles(fs) ==
  SelectSeq(fs, LAMBDA f : EndsWith(FileName(f.parts), <<".","s","q","l">>) /\ should_index_path(f.parts))
MarkdownFiles(fs) ==
  SelectSeq(fs, LAMBDA f : /\ EndsWith(FileName(f.parts), <<".","m","d">>)
                           /\ should_index_path(f.parts)
                           /\ ~StartsWith(FileName(f.parts), <<".">>))

\* the extractor of the language on one file
IndexOne(self, f, language) ==
  IF language = "python" THEN _index_python_file(self, f)
  ELSE IF language = "sql" THEN _index_sql_file(self, f)
  ELSE _index_markdown_file(self, f)
\* for f in files: the extractor of the language
RECURSIVE IndexEach(_, _, _)
IndexEach(self, files, language) ==
  IF files = <<>> THEN self
  ELSE IndexEach(IndexOne(self, Head(files), language), Tail(files), language)

\* sum(len(funcs) for funcs in self.functions.values())
RECURSIVE SumLen(_, _)
SumLen(d, keys) ==
  IF keys = {} THEN 0
  ELSE LET k == CHOOSE x \in keys : TRUE
       IN Len(d[k]) + SumLen(d, keys \ {k})

\* the stats dictionary of index_codebase and of save_index (the elapsed
\* time of index_codebase is not part of the snapshot)
StatsOf(self) ==
  [total_components |-> Len(self.components),
   files_indexed |-> Cardinality(self.files_indexed),
   routes |-> Cardinality(DOMAIN self.routes),
   models |-> Cardinality(DOMAIN self.models),
   tables |-> Cardinality(DOMAIN self.tables),
   functions |-> SumLen(self.functions, DOMAIN self.functions),
   classes |-> Cardinality(DOMAIN self.classes)]

\* index_codebase on the tree fs.  fault names the rglob whose directory
\* scan raises OSError ("py", "sql", "md"), or "none"; the exception leaves
\* index_codebase with what was appended so far.
AfterSql(self, fs, fault) ==
  IF fault = "md" THEN [ok |-> FALSE, self |-> self]
  ELSE [ok |-> TRUE,
        self |-> _build_lookup_tables(IndexEach(self, MarkdownFiles(fs), "markdown"))]
AfterPython(self, fs, fault) ==
  IF fault = "sql" THEN [ok |-> FALSE, self |-> self]
  ELSE AfterSql(IndexEach(self, SqlFiles(fs), "sql"), fs, fault)
index_codebase(self, fs, fault) ==
  IF fault = "py" THEN [ok |-> FALSE, self |-> self]
  ELSE AfterPython(IndexEach(self, PythonFiles(fs), "python"), fs, fault)

(* ------------------------------- search ------------------------------- *)
\* scoring with `if` in the place of `elif`: the matching rules add up
ScoreOfAdditive(comp, query_lower) ==
  (IF query_lower = lower(comp.name) THEN 100 ELSE 0)
  + (IF Contains(lower(comp.name), query_lower) THEN 50 ELSE 0)
  + (IF Contains(lower(comp.docstring), query_lower) THEN 20 ELSE 0)
  + (IF Contains(lower(comp.filepath), query_lower) THEN 10 ELSE 0)

\* the score search gives one component
ScoreOf(comp, query_lower) ==
  IF query_lower = lower(comp.name) THEN 100
  ELSE IF Contains(lower(comp.name), query_lower) THEN 50
  ELSE IF Contains(lower(comp.docstring), query_lower) THEN 20
  ELSE IF Contains(lower(comp.filepath), query_lower) THEN 10
  ELSE IF DOMAIN comp.metadata # {} /\ Get(comp.metadata, "language", "") = "markdown"
    THEN IF Contains(lower(Get(comp.metadata, "title", <<>>)), query_lower) THEN 30
         ELSE IF Contains(lower(Get(comp.metadata, "content", <<>>)), query_lower) THEN 15
         ELSE 0
  ELSE IF DOMAIN comp.metadata # {} /\ Get(comp.metadata, "language", "") = "sql"
    THEN IF Contains(lower(Get(comp.metadata, "content", <<>>)), query_lower) THEN 15
         ELSE 0
  ELSE 0

\* asdict(comp)
asdict(comp) == [k \in ComponentFields |-> comp[k]]

\* result = asdict(comp); result['score'] = score
ResultOf(comp, score) ==
  [k \in ComponentFields \cup {"score"} |-> IF k = "score" THEN score ELSE comp[k]]

\* `if component_type and comp.type != component_type: continue`
Skipped(comp, component_type) ==
  /\ component_type # None
  /\ component_type[1] # ""
  /\ comp.type # component_type[1]

\* the loop of search: the matching components in component order
\* `if score > 0`: the result appended for one component
Scored(comp, score) == IF score > 0 THEN <<ResultOf(comp, score)>> ELSE <<>>
RECURSIVE Matches(_, _, _)
Matches(components, query_lower, component_type) ==
  IF components = <<>> THEN <<>>
  ELSE (IF Skipped(Head(components), component_type) THEN <<>>
        ELSE Scored(Head(components), ScoreOf(Head(components), query_lower)))
       \o Matches(Tail(components), query_lower, component_type)

\* list.sort(key=score, reverse=True): a stable sort, equal keys keep
\* their order; done here by insertion behind the entries not smaller
\* an insertion ahead of the entries of equal score: a sort that is not stable
RECURSIVE InsertAheadOfEqual(_, _)
InsertAheadOfEqual(sorted, x) ==
  IF sorted = <<>> THEN <<x>>
  ELSE IF Head(sorted).score > x.score
    THEN <<Head(sorted)>> \o InsertAheadOfEqual(Tail(sorted), x)
  ELSE <<x>> \o sorted

RECURSIVE InsertByScore(_, _)
InsertByScore(sorted, x) ==
  IF sorted = <<>> THEN <<x>>
  ELSE IF Head(sorted).score >= x.score
    THEN <<Head(sorted)>> \o InsertByScore(Tail(sorted), x)
  ELSE <<x>> \o sorted
RECURSIVE SortFrom(_, _)
SortFrom(sorted, rest) ==
  IF rest = <<>> THEN sorted
  ELSE SortFrom(InsertByScore(sorted, Head(rest)), Tail(rest))
SortByScore(results) == SortFrom(<<>>, results)

\* results[:limit] for any integer limit
SliceTo(results, limit) ==
  IF limit >= 0 THEN Prefix(results, limit)
  ELSE IF Len(results) + limit > 0 THEN Prefix(results, Len(results) + limit)
  ELSE <<>>

search(self, query, component_type, limit) ==
  SliceTo(SortByScore(Matches(self.components, lower(query), component_type)), limit)

(* ------------------------------ snapshot ------------------------------ *)
\* json.dump raises TypeError on a bytes object
JsonEncodable(comp) ==
  Get(comp.metadata, "route_path", StrVal(<<>>)).k # "bytes"

NoFile == [exists |-> FALSE]
\* a file that is not a JSON document (cut short, or other content)
BrokenFile == [exists |-> TRUE, json |-> FALSE]
JsonFile(data) == [exists |-> TRUE, json |-> TRUE, data |-> data]

\* save_index: the file it leaves and whether it returned.  The timestamp
\* field indexed_at is left out: load_index does not read it.  With
\* io_error the file cannot be opened for writing.
save_index(self, old_file, io_error) ==
  IF io_error THEN [ok |-> FALSE, file |-> old_file]
  ELSE IF \E i \in 1..Len(self.components) : ~JsonEncodable(self.components[i])
    THEN [ok |-> FALSE, file |-> BrokenFile]
  ELSE [ok |-> TRUE,
        file |-> JsonFile([project_root |-> PROJECT_ROOT,
                           components |-> [i \in 1..Len(self.components) |->
                                             asdict(self.components[i])],
                           stats |-> StatsOf(self)])]

\* the snapshot document as save_index writes it
StatsFields ==
  {"total_components", "files_indexed", "routes", "models", "tables",
   "functions", "classes"}
WellFormed(file) ==
  /\ file.json
  /\ {"components", "stats"} \subseteq DOMAIN file.data
  /\ DOMAIN file.data.stats = StatsFields
  /\ \A i \in 1..Len(file.data.components) :
        DOMAIN file.data.components[i] = ComponentFields

\* CodeComponent(**comp): TypeError on an unknown or a missing required
\* keyword, the defaults of the dataclass for the others
FromDict(d) ==
  IF ~(DOMAIN d \subseteq ComponentFields) \/ ~(RequiredFields \subseteq DOMAIN d)
    THEN Raise
    ELSE Ok(CodeComponent(d.type, d.name, d.filepath, d.line_start, d.line_end,
                          Get(d, "docstring", <<>>), Get(d, "signature", <<>>),
                          Get(d, "decorators", <<>>), Get(d, "parent_class", <<>>),
                          Get(d, "imports", <<>>), Get(d, "metadata", EmptyDict)))

\* load_index on an existing file: the indexer, or the exception
load_index(file) ==
  IF ~file.json THEN Raise
  ELSE IF "components" \notin DOMAIN file.data THEN Raise
  ELSE LET records == file.data.components
       IN IF \E i \in 1..Len(records) : ~FromDict(records[i]).ok THEN Raise
          ELSE IF /\ "stats" \in DOMAIN file.data
                  /\ "total_components" \in DOMAIN file.data.stats
            THEN Ok(_build_lookup_tables(
                      [NewIndexer EXCEPT !.components =
                         [i \in 1..Len(records) |-> FromDict(records[i]).v]]))
            ELSE Raise

(* --------------------------- the indexed tree -------------------------- *)
\* Files a tree may hold.  A Python file is given by what read_text and
\* ast.parse yield for it, a SQL or Markdown file by its text.
PyFile(parts, readable, parses, nlines, size, tree) ==
  [parts |-> parts, readable |-> readable, parses |-> parses,
   nlines |-> nlines, size |-> size, tree |-> tree]
TextFile(parts, readable, text) ==
  [parts |-> parts, readable |-> readable, text |-> text]

\* web/app.py: two handlers registered for the same path, and a function
AppPy ==
  PyFile(<< <<"w","e","b">>, <<"a","p","p",".","p","y">> >>, TRUE, TRUE, 9, 118,
    Module(<<>>,
      << Import(<< <<"f","l","a","s","k">> >>),
         FunctionDef(<<"h">>, <<>>,
           << Call(Attribute(Name(<<"a","p","p">>), <<"r","o","u","t","e">>), << Constant(StrVal(<<"/","x">>)) >>) >>,
           <<"l","i","s","t"," ","v","o","t","e","r","s">>, 3, 4, <<>>),
         FunctionDef(<<"k">>, << <<"a">>, <<"b">> >>,
           << Call(Attribute(Name(<<"b","p">>), <<"r","o","u","t","e">>), << Constant(StrVal(<<"/","x">>)) >>) >>,
           <<>>, 6, 7, <<>>),
         FunctionDef(<<"v","o","t","e","r","s">>, <<>>, <<>>, <<>>, 8, 9, <<>>) >>))

\* lib/dog.py: a class with a method, and a model class
DogPy ==
  PyFile(<< <<"l","i","b">>, <<"d","o","g",".","p","y">> >>, TRUE, TRUE, 5, 90,
    Module(<<>>,
      << ClassDef(<<"D","o","g">>, << Name(<<"A","n","i","m","a","l">>) >>, <<>>, <<>>, 1, 3,
           << FunctionDef(<<"b","a","r","k">>, << <<"s","e","l","f">> >>, <<>>, <<"s","a","y","s"," ","w","o","o","f">>, 2, 3, <<>>) >>),
         ClassDef(<<"U","s","e","r">>, << Attribute(Name(<<"d","b">>), <<"M","o","d","e","l">>) >>, <<>>, <<>>, 4, 5,
           <<>>) >>))

\* bad.py: a syntax error
BadPy == PyFile(<< <<"b","a","d",".","p","y">> >>, TRUE, FALSE, 1, 7, Module(<<>>, <<>>))

\* deep.py: a class whose base is an attribute chain too deep for _get_name
DeepPy ==
  PyFile(<< <<"d","e","e","p",".","p","y">> >>, TRUE, TRUE, 6, 3055,
    Module(<<>>,
      << FunctionDef(<<"f">>, <<>>, <<>>, <<>>, 1, 2, <<>>),
         ClassDef(<<"A">>, << DeepAttribute(<<"a">>) >>, <<>>, <<>>, 3, 4, <<>>),
         FunctionDef(<<"g">>, <<>>, <<>>, <<>>, 5, 6, <<>>) >>))

\* raw.py: a route registered with a bytes literal
RawPy ==
  PyFile(<< <<"r","a","w",".","p","y">> >>, TRUE, TRUE, 3, 36,
    Module(<<>>,
      << FunctionDef(<<"f">>, <<>>,
           << Call(Attribute(Name(<<"a","p","p">>), <<"r","o","u","t","e">>), << Constant(BytesVal(<<"/","x">>)) >>) >>,
           <<>>, 2, 3, <<>>) >>))

\* venv/x.py: below an excluded directory
VenvPy ==
  PyFile(<< <<"v","e","n","v">>, <<"x",".","p","y">> >>, TRUE, TRUE, 2, 18,
    Module(<<>>, << FunctionDef(<<"x">>, <<>>, <<>>, <<>>, 1, 2, <<>>) >>))

\* db/s.sql: two tables, the second statement without a terminator
SchemaSql ==
  TextFile(<< <<"d","b">>, <<"s",".","s","q","l">> >>, TRUE,
    <<"C","R","E","A","T","E"," ","T","A","B","L","E"," ","I","F"," ","N","O","T"," ","E","X","I","S","T","S"," ","v","o","t","e","r","s"," ","(","i","d"," ","I","N","T",")",";","\n","c","r","e","a","t","e"," ","t","a","b","l","e"," ","t","2"," ","(","x"," ","i","n","t",")">>)

\* long.sql: longer than the preview
LongSql ==
  TextFile(<< <<"l","o","n","g",".","s","q","l">> >>, TRUE,
    <<"C","R","E","A","T","E"," ","T","A","B","L","E"," ","b","i","g"," ","(","x",")",";">> \o [i \in 1..PreviewChars |-> " "] \o <<"z","q">>)

\* bin.sql: not decodable as UTF-8
BinSql == TextFile(<< <<"b","i","n",".","s","q","l">> >>, FALSE, <<>>)

\* docs/d.md
GuideMd == TextFile(<< <<"d","o","c","s">>, <<"d",".","m","d">> >>, TRUE, <<"#"," ","G","u","i","d","e","\n","\n","s","a","y","s"," ","d","o","g","\n","#","#"," ","a","p","i","\n">>)

\* lib/shop.py: a model named as the class of lib/dog.py, and a class
\* named as its model
ShopPy ==
  PyFile(<< <<"l","i","b">>, <<"s","h","o","p",".","p","y">> >>, TRUE, TRUE, 4, 60,
    Module(<<>>,
      << ClassDef(<<"D","o","g">>, << Name(<<"B","a","s","e","M","o","d","e","l">>) >>, <<>>, <<>>, 1, 2, <<>>),
         ClassDef(<<"U","s","e","r">>, <<>>, <<>>, <<>>, 3, 4, <<>>) >>))

\* gen.py: a class whose base is a subscript
GenericPy ==
  PyFile(<< <<"g","e","n",".","p","y">> >>, TRUE, TRUE, 2, 30,
    Module(<<>>,
      << ClassDef(<<"B","o","x">>, << Subscript(<<"0","x","1">>) >>, <<>>, <<>>, 1, 2, <<>>) >>))

\* files of no bytes
EmptyPy == PyFile(<< <<"e","m","p","t","y",".","p","y">> >>, TRUE, TRUE, 0, 0, Module(<<>>, <<>>))
EmptySql == TextFile(<< <<"e","m","p","t","y",".","s","q","l">> >>, TRUE, <<>>)
EmptyMd == TextFile(<< <<"e","m","p","t","y",".","m","d">> >>, TRUE, <<>>)

Catalogue ==
  {AppPy, DogPy, BadPy, DeepPy, RawPy, VenvPy, SchemaSql, LongSql, BinSql, GuideMd,
   ShopPy, GenericPy, EmptyPy, EmptySql, EmptyMd}

\* the trees of at most n files, in every traversal order
RECURSIVE TreesOf(_, _)
TreesOf(files, n) ==
  IF n = 0 THEN {<<>>}
  ELSE LET shorter == TreesOf(files, n - 1)
       IN shorter \cup
          {Append(t, f) : <<t, f>> \in
             {<<t, f>> \in shorter \X files :
                \A i \in 1..Len(t) : t[i].parts # f.parts}}
Trees == TreesOf(Catalogue, MaxFiles)

(* ------------------------------- state -------------------------------- *)
VARIABLES
  fs,          \* the tree below PROJECT_ROOT: its files in traversal order
  indexer,     \* a CodebaseIndexer object used through its methods
  runs,        \* the index_codebase calls made on that object
  snapshot,    \* the snapshot file (INDEX_PATH of the server)
  loaded,      \* what the last load_index call gave: None, a result
  request,     \* the arguments of the last search call, or None
  results,     \* the list the last search call returned
  _indexer,    \* the global of server.py: None or Some(indexer)
  pc,          \* where the tool call being handled stands
  task,        \* the tool call being handled: name and arguments
  prior,       \* the value of _indexer when that tool call arrived
  origin,      \* the trees the indexes in _indexer (held) and in prior were
               \* built from to the end by this process, else None
  response     \* the answer to the last tool call

vars == <<fs, indexer, runs, snapshot, loaded, request, results,
          _indexer, pc, task, prior, origin, response>>

libVars == <<indexer, runs, loaded>>
searchVars == <<request, results>>
serverVars == <<_indexer, pc, task, prior, origin, response>>

NoTask == [name |-> "", query |-> <<>>, type |-> None, limit |-> 0]
NoResponse == [kind |-> "none", at |-> "", results |-> <<>>]

InitCommon ==
  /\ fs \in Trees
  /\ indexer = NewIndexer
  /\ runs = 0
  /\ snapshot = NoFile
  /\ loaded = None
  /\ request = None
  /\ results = <<>>
  /\ _indexer = None
  /\ pc = "idle"
  /\ task = NoTask
  /\ prior = None
  /\ origin = [held |-> None, prior |-> None]
  /\ response = NoResponse

(* ------------------- the indexer used as a library --------------------- *)
\* the searches tried: every query without filter and with the default
\* limit of search, and some queries with every filter and limit
Queries ==
  {<<>>, <<"D","O","G">>, <<"w","o","o","f">>, <<"l","i","b">>, <<"g","u","i","d","e">>, <<"a","p","i">>, <<"z","q">>, <<"v","o","t","e","r","s">>}
KindFilters ==
  {None, Some(""), Some("function"), Some("file"), Some("widget")}
Limits == {-1, 0, 2, 20}
Request(query, component_type, limit) ==
  [query |-> query, component_type |-> component_type, limit |-> limit]
Requests ==
  {Request(query, None, 20) : query \in Queries}
  \cup {Request(query, component_type, limit) :
          query \in {<<>>, <<"D","O","G">>, <<"v","o","t","e","r","s">>},
          component_type \in KindFilters, limit \in Limits}

\* indexer.index_codebase(); an exception leaves the object as it is then
IndexCodebase(fault, heap) ==
  /\ runs < MaxRuns
  /\ indexer' = index_codebase(indexer, Parsed(fs, heap), fault).self
  /\ runs' = runs + 1
  /\ UNCHANGED <<fs, snapshot, loaded, searchVars, serverVars>>

\* indexer.search(query, component_type, limit); it changes nothing in the
\* indexer, so one call is followed per behaviour
Search(query, component_type, limit) ==
  /\ request = None
  /\ request' = Request(query, component_type, limit)
  /\ results' = search(indexer, query, component_type, limit)
  /\ UNCHANGED <<fs, snapshot, libVars, serverVars>>

\* indexer.save_index(path)
SaveIndex(io_error) ==
  /\ runs > 0
  /\ snapshot' = save_index(indexer, snapshot, io_error).file
  /\ UNCHANGED <<fs, libVars, searchVars, serverVars>>

\* CodebaseIndexer.load_index(path, root) on an existing file
LoadIndex ==
  /\ snapshot.exists
  /\ loaded' = Some(load_index(snapshot))
  /\ UNCHANGED <<fs, indexer, runs, snapshot, searchVars, serverVars>>

\* a file of the tree is deleted
RemoveFile(i) ==
  /\ fs' = SubSeq(fs, 1, i - 1) \o SubSeq(fs, i + 1, Len(fs))
  /\ UNCHANGED <<snapshot, libVars, searchVars, serverVars>>

Faults == {"none", "py", "sql", "md"}
\* where a run may find its nodes allocated
Addresses == {<<"0","x","1">>, <<"0","x","2">>}

Init == InitCommon
Next ==
  \/ \E fault \in Faults, heap \in Addresses : IndexCodebase(fault, heap)
  \/ \E io_error \in BOOLEAN : SaveIndex(io_error)
  \/ LoadIndex
  \/ \E i \in 1..Len(fs) : RemoveFile(i)
Spec == Init /\ [][Next]_vars

\* index runs over trees of files with classes
ClassCatalogue == {DogPy, ShopPy, GenericPy, AppPy, BadPy}
InitClasses ==
  /\ InitCommon
  /\ fs \in TreesOf(ClassCatalogue, MaxFiles)
NextClasses ==
  \/ \E fault \in Faults, heap \in Addresses : IndexCodebase(fault, heap)
  \/ \E i \in 1..Len(fs) : RemoveFile(i)
SpecClasses == InitClasses /\ [][NextClasses]_vars

\* the files that yield components, for the searches
SearchCatalogue == {AppPy, DogPy, SchemaSql, LongSql, GuideMd}
InitSearch ==
  /\ InitCommon
  /\ fs \in TreesOf(SearchCatalogue, MaxFiles)
NextSearch ==
  \/ \E heap \in Addresses : IndexCodebase("none", heap)
  \/ \E r \in Requests : Search(r.query, r.component_type, r.limit)
SpecSearch == InitSearch /\ [][NextSearch]_vars

(* ------------------------------ the server ----------------------------- *)
\* call_tool runs on one event loop and never awaits, so a tool call is
\* handled to its end before the next one starts; pc follows it through
\* get_indexer, index_codebase and save_index.
ServerQueries == {<<"D","O","G">>, <<"v","o","t","e","r","s">>}
ServerKinds == {None, Some("table"), Some("widget")}
ServerLimits == {10}
ListedKinds == {"table", "class", "function", "widget"}
ServerPaths == {RelPath(DogPy.parts), <<"D","O","G">>}
OtherTools == {"drop_index"}

\* a dispatch that takes every name but rebuild_index for a tool that
\* reads the index
RouteThroughIndexer(name) ==
  IF name = "rebuild_index" THEN "rebuild" ELSE "get_indexer"

\* the tools whose branch of call_tool starts with get_indexer()
IndexTools ==
  {"search_code", "find_route", "find_model", "find_table",
   "list_components", "explain_file"}

\* the if/elif chain of call_tool on the tool name; a name of no branch
\* falls through to the last return
Route(name) ==
  IF name \in IndexTools THEN "get_indexer"
  ELSE IF name = "rebuild_index" THEN "rebuild"
  ELSE "unknown"

\* a tool call arrives; `type` holds the kind argument of the tool (type
\* of search_code, component_type of list_components) and `query` its
\* text argument (query, route, model_name, table_name, filepath)
CallTool(name, query, type, limit) ==
  /\ pc = "idle"
  /\ task' = [name |-> name, query |-> query, type |-> type, limit |-> limit]
  /\ prior' = _indexer
  /\ origin' = [origin EXCEPT !.prior = origin.held]
  /\ pc' = Route(name)
  /\ UNCHANGED <<fs, snapshot, libVars, searchVars, _indexer, response>>

\* the last return of call_tool: "Unknown tool: {name}"
UnknownTool ==
  /\ pc = "unknown"
  /\ response' = [kind |-> "unknown_tool", at |-> "", results |-> <<>>]
  /\ pc' = "idle"
  /\ UNCHANGED <<fs, snapshot, libVars, searchVars, _indexer, task, prior, origin>>

\* the exception of a handler reaches the caller as an error response
\* whose text is that of the call that raised
ErrorResponse(at) == [kind |-> "error", at |-> at, results |-> <<>>]

\* get_indexer with the global set
GetIndexerHeld ==
  /\ pc = "get_indexer"
  /\ _indexer # None
  /\ pc' = "query"
  /\ UNCHANGED <<fs, snapshot, libVars, searchVars, _indexer, task, prior, origin, response>>

\* _indexer = CodebaseIndexer.load_index(...), unless the call raises
Held(got) ==
  IF got.ok THEN /\ _indexer' = Some(got.v)
                 /\ pc' = "query"
                 /\ UNCHANGED response
            ELSE /\ pc' = "idle"
                 /\ response' = ErrorResponse("load_index")
                 /\ UNCHANGED _indexer

\* get_indexer, first use, the snapshot file exists: load_index
GetIndexerLoad ==
  /\ pc = "get_indexer"
  /\ _indexer = None
  /\ snapshot.exists
  /\ Held(load_index(snapshot))
  /\ origin' = [origin EXCEPT !.held = None]
  /\ UNCHANGED <<fs, snapshot, libVars, searchVars, task, prior>>

\* _indexer = CodebaseIndexer(PROJECT_ROOT), in get_indexer on first use
\* without a snapshot file and in rebuild_index
NewGlobal ==
  /\ \/ pc = "rebuild"
     \/ pc = "get_indexer" /\ _indexer = None /\ ~snapshot.exists
  /\ _indexer' = Some(NewIndexer)
  /\ origin' = [origin EXCEPT !.held = None]
  /\ pc' = "index"
  /\ UNCHANGED <<fs, snapshot, libVars, searchVars, task, prior, response>>

\* the object the global names after index_codebase returned or raised
Indexed(run) ==
  /\ _indexer' = Some(run.self)
  /\ origin' = [origin EXCEPT !.held = IF run.ok THEN Some(fs) ELSE None]
  /\ IF run.ok THEN pc' = "save" /\ UNCHANGED response
               ELSE pc' = "idle" /\ response' = ErrorResponse("index_codebase")

\* _indexer.index_codebase()
IndexGlobal(fault, heap) ==
  /\ pc = "index"
  /\ Indexed(index_codebase(_indexer[1], Parsed(fs, heap), fault))
  /\ UNCHANGED <<fs, snapshot, libVars, searchVars, task, prior>>

\* the file after save_index returned or raised, and where the handler goes
Saved(saved) ==
  /\ snapshot' = saved.file
  /\ IF ~saved.ok THEN pc' = "idle" /\ response' = ErrorResponse("save_index")
     ELSE IF task.name = "rebuild_index"
       THEN pc' = "idle" /\ response' = [kind |-> "rebuilt", at |-> "", results |-> <<>>]
     ELSE pc' = "query" /\ UNCHANGED response

\* _indexer.save_index(INDEX_PATH)
SaveGlobal(io_error) ==
  /\ pc = "save"
  /\ Saved(save_index(_indexer[1], snapshot, io_error))
  /\ UNCHANGED <<fs, libVars, searchVars, _indexer, task, prior, origin>>

\* `if not results`: "No results found", else the results listed
Answer(found) ==
  IF found = <<>> THEN [kind |-> "no_results", at |-> "", results |-> <<>>]
  ELSE [kind |-> "results", at |-> "", results |-> found]

\* the search_code branch of call_tool after get_indexer
SearchCode ==
  /\ pc = "query"
  /\ task.name = "search_code"
  /\ response' = Answer(search(_indexer[1], task.query, task.type, task.limit))
  /\ pc' = "idle"
  /\ UNCHANGED <<fs, snapshot, libVars, searchVars, _indexer, task, prior, origin>>

\* the characters of identifiers in the order of their code points
NameChars == Digits \o UpperLetters \o <<"_">> \o LowerLetters

\* a < b on str
RECURSIVE StrLess(_, _)
StrLess(a, b) ==
  IF b = <<>> THEN FALSE
  ELSE IF a = <<>> THEN TRUE
  ELSE IF a[1] = b[1] THEN StrLess(Tail(a), Tail(b))
  ELSE (CHOOSE i \in 1..Len(NameChars) : NameChars[i] = a[1])
         < (CHOOSE i \in 1..Len(NameChars) : NameChars[i] = b[1])

\* sorted(items, key=lambda x: x.name) on the values of a lookup table,
\* given as positions; items of one name keep the order of their positions
RECURSIVE SortedByName(_, _)
Pick(self, positions, p) ==
  <<self.components[p]>> \o SortedByName(self, positions \ {p})
SortedByName(self, positions) ==
  IF positions = {} THEN <<>>
  ELSE Pick(self, positions,
            CHOOSE p \in positions : \A q \in positions \ {p} :
               \/ StrLess(self.components[p].name, self.components[q].name)
               \/ /\ self.components[p].name = self.components[q].name
                  /\ p < q)

\* the listing of list_components: the first 50 items of a table by name
Listed(self, comp_type, table) ==
  [kind |-> "listing", at |-> comp_type,
   results |-> Prefix(SortedByName(self, {table[k] : k \in DOMAIN table}), 50)]

\* the answer of list_components: the table of the kind listed, or
\* "Unknown component type"
Listing(self, comp_type) ==
  IF comp_type = "route" THEN Listed(self, comp_type, self.routes)
  ELSE IF comp_type = "model" THEN Listed(self, comp_type, self.models)
  ELSE IF comp_type = "table" THEN Listed(self, comp_type, self.tables)
  ELSE IF comp_type = "class" THEN Listed(self, comp_type, self.classes)
  ELSE [kind |-> "unknown_component_type", at |-> comp_type, results |-> <<>>]

\* the list_components branch of call_tool after get_indexer
ListComponents ==
  /\ pc = "query"
  /\ task.name = "list_components"
  /\ response' = Listing(_indexer[1], task.type[1])
  /\ pc' = "idle"
  /\ UNCHANGED <<fs, snapshot, libVars, searchVars, _indexer, task, prior, origin>>

\* find_route, find_model, find_table: the component under the exact key
\* of the table, else a search of that kind with limit 5
Found(self, table, key, query, kind) ==
  IF key \in DOMAIN table
    THEN [kind |-> "component", at |-> kind, results |-> <<self.components[table[key]]>>]
  ELSE IF search(self, query, Some(kind), 5) = <<>>
    THEN [kind |-> "not_found", at |-> kind, results |-> <<>>]
  ELSE [kind |-> "results", at |-> kind, results |-> search(self, query, Some(kind), 5)]

FindComponent ==
  /\ pc = "query"
  /\ task.name \in {"find_route", "find_model", "find_table"}
  /\ response' =
       IF task.name = "find_route"
         THEN Found(_indexer[1], _indexer[1].routes, StrVal(task.query), task.query, "route")
       ELSE IF task.name = "find_model"
         THEN Found(_indexer[1], _indexer[1].models, task.query, task.query, "model")
       ELSE Found(_indexer[1], _indexer[1].tables, task.query, task.query, "table")
  /\ pc' = "idle"
  /\ UNCHANGED <<fs, snapshot, libVars, searchVars, _indexer, task, prior, origin>>

\* the explain_file branch of call_tool: the components of the file, or
\* "File not found"
ExplainFile ==
  /\ pc = "query"
  /\ task.name = "explain_file"
  /\ response' =
       IF \A i \in 1..Len(_indexer[1].components) :
             _indexer[1].components[i].filepath # task.query
         THEN [kind |-> "file_not_found", at |-> "", results |-> <<>>]
       ELSE [kind |-> "file", at |-> "",
             results |-> SelectSeq(_indexer[1].components,
                                   LAMBDA c : c.filepath = task.query)]
  /\ pc' = "idle"
  /\ UNCHANGED <<fs, snapshot, libVars, searchVars, _indexer, task, prior, origin>>

\* the server process ends and is started again
Restart ==
  /\ pc = "idle"
  /\ _indexer # None
  /\ _indexer' = None
  /\ origin' = [origin EXCEPT !.held = None]
  /\ UNCHANGED <<fs, snapshot, libVars, searchVars, pc, task, prior, response>>

\* The snapshot file is damaged or replaced while no process holds it: cut
\* short, or a document without one of its parts.
WithoutKey(d, key) == [k \in (DOMAIN d) \ {key} |-> d[k]]
WithKey(d, key, value) == [k \in (DOMAIN d) \cup {key} |-> IF k = key THEN value ELSE d[k]]
Damaged(file) ==
  {BrokenFile}
  \cup {JsonFile(WithoutKey(file.data, key)) : key \in {"components", "stats"} \cap DOMAIN file.data}
  \cup (IF "components" \in DOMAIN file.data /\ file.data.components # <<>>
          THEN {JsonFile([file.data EXCEPT !.components[1] = WithoutKey(@, key)]) :
                  key \in {"name", "docstring"} \cap DOMAIN file.data.components[1]}
               \cup {JsonFile([file.data EXCEPT !.components[1] = WithKey(@, "extra", 0)])}
          ELSE {})
DamageSnapshot ==
  /\ pc = "idle"
  /\ _indexer = None
  /\ snapshot.exists
  /\ WellFormed(snapshot)
  /\ snapshot' \in Damaged(snapshot)
  /\ UNCHANGED <<fs, libVars, searchVars, serverVars>>

\* a file is created in the tree while no tool call is being handled; it
\* takes the i-th place of the traversal
AddFile(f, i) ==
  /\ pc = "idle"
  /\ Len(fs) < MaxFiles
  /\ \A j \in 1..Len(fs) : fs[j].parts # f.parts
  /\ fs' = SubSeq(fs, 1, i - 1) \o <<f>> \o SubSeq(fs, i, Len(fs))
  /\ UNCHANGED <<snapshot, libVars, searchVars, serverVars>>

ServerCatalogue == {DogPy, DeepPy, RawPy, SchemaSql}
InitServer ==
  /\ InitCommon
  /\ fs \in TreesOf(ServerCatalogue, MaxFiles)
NextServer ==
  \/ \E query \in ServerQueries, type \in ServerKinds, limit \in ServerLimits :
        CallTool("search_code", query, type, limit)
  \/ CallTool("rebuild_index", <<>>, None, 0)
  \/ \E kind \in ListedKinds : CallTool("list_components", <<>>, Some(kind), 0)
  \/ \E name \in {"find_route", "find_model", "find_table"}, query \in ServerQueries :
        CallTool(name, query, None, 0)
  \/ \E filepath \in ServerPaths : CallTool("explain_file", filepath, None, 0)
  \/ \E name \in OtherTools : CallTool(name, <<>>, None, 0)
  \/ UnknownTool
  \/ ListComponents
  \/ FindComponent
  \/ ExplainFile
  \/ GetIndexerHeld
  \/ GetIndexerLoad
  \/ NewGlobal
  \/ \E fault \in Faults, heap \in Addresses : IndexGlobal(fault, heap)
  \/ \E io_error \in BOOLEAN : SaveGlobal(io_error)
  \/ SearchCode
  \/ Restart
  \/ DamageSnapshot
SpecServer == InitServer /\ [][NextServer]_vars

\* rebuild_index called again and again on a tree that grows
RebuildCatalogue == {DogPy, BadPy, DeepPy, VenvPy, GenericPy, SchemaSql, BinSql, EmptyMd}
InitRebuild ==
  /\ InitCommon
  /\ Len(fs) < MaxFiles
  /\ \A i \in 1..Len(fs) : fs[i] \in RebuildCatalogue
NextRebuild ==
  \/ CallTool("rebuild_index", <<>>, None, 0)
  \/ NewGlobal
  \/ \E fault \in Faults, heap \in Addresses : IndexGlobal(fault, heap)
  \/ \E io_error \in BOOLEAN : SaveGlobal(io_error)
  \/ \E f \in RebuildCatalogue, i \in 1..(Len(fs) + 1) : AddFile(f, i)
SpecRebuild == InitRebuild /\ [][NextRebuild]_vars

(* ------------------------------ properties ----------------------------- *)
\* The rules of the scoring in the order they are tried: whether each one
\* applies to a component (or a result, which has the component's fields).
HasLanguage(c, language) ==
  "language" \in DOMAIN c.metadata /\ c.metadata.language = language
InField(c, key, q) == Contains(lower(Get(c.metadata, key, <<>>)), q)
RuleApplies(c, q, k) ==
  CASE k = 1 -> q = lower(c.name)
    [] k = 2 -> Contains(lower(c.name), q)
    [] k = 3 -> Contains(lower(c.docstring), q)
    [] k = 4 -> Contains(lower(c.filepath), q)
    [] k = 5 -> HasLanguage(c, "markdown") /\ InField(c, "title", q)
    [] k = 6 -> HasLanguage(c, "markdown") /\ InField(c, "content", q)
    [] k = 7 -> HasLanguage(c, "sql") /\ InField(c, "content", q)
RuleScores == <<100, 50, 20, 10, 30, 15, 15>>
\* the score of the first rule from the k-th on that applies, else 0
RECURSIVE FirstRuleFrom(_, _, _)
FirstRuleFrom(c, q, k) ==
  IF k > Len(RuleScores) THEN 0
  ELSE IF RuleApplies(c, q, k) THEN RuleScores[k]
  ELSE FirstRuleFrom(c, q, k + 1)
FirstRuleScore(c, q) == FirstRuleFrom(c, q, 1)

\* a match of the name as a whole, of a part of the name only, of the
\* summary but not the name
ExactName(c, q) == q = lower(c.name)
NameSubstring(c, q) == q # lower(c.name) /\ Contains(lower(c.name), q)
SummaryOnly(c, q) == ~Contains(lower(c.name), q) /\ Contains(lower(c.docstring), q)

\* C1: every score search gives is that of the first rule that applies to
\* the component, in the order exact name 100, name substring 50, summary
\* 20, path 10, markdown title 30 or content 15, sql content 15, else 0;
\* scores are never added, so among the results an exact-name match
\* outscores a name-substring match, which outscores a summary match.
C1_FirstRuleOnly ==
  request # None =>
    /\ \A i \in 1..Len(indexer.components) :
          ScoreOf(indexer.components[i], lower(request.query))
            = FirstRuleScore(indexer.components[i], lower(request.query))
    /\ \A i \in 1..Len(results) :
          results[i].score = FirstRuleScore(results[i], lower(request.query))
    /\ \A i, j \in 1..Len(results) :
          /\ (ExactName(results[i], lower(request.query))
                /\ NameSubstring(results[j], lower(request.query)))
              => results[i].score > results[j].score
          /\ (NameSubstring(results[i], lower(request.query))
                /\ SummaryOnly(results[j], lower(request.query)))
              => results[i].score > results[j].score

\* C1 witness: a search returned an exact-name match, a name-substring match
\* to which the path rule applies too, and a summary match.
C1_Witness ==
  /\ request # None
  /\ \E i, j, k \in 1..Len(results) :
        /\ results[i].score = 100
        /\ results[j].score = 50
        /\ RuleApplies(results[j], lower(request.query), 4)
        /\ results[k].score = 20

IsPrefix(a, b) == Len(a) <= Len(b) /\ SubSeq(b, 1, Len(a)) = a
WithScore(rs, score) == SelectSeq(rs, LAMBDA r : r.score = score)

\* C2: the list search returns is ordered by score descending, and the
\* results of one score are in the order their components have in the
\* component sequence.
C2_ScoreDescendingStable ==
  request # None =>
    /\ \A i, j \in 1..Len(results) : i < j => results[i].score >= results[j].score
    /\ LET matches == Matches(indexer.components, lower(request.query),
                              request.component_type)
       IN \A score \in {results[i].score : i \in 1..Len(results)} :
             IsPrefix(WithScore(results, score), WithScore(matches, score))

\* C2 witness: a search returned two different results of one score and a
\* result of another score.
C2_Witness ==
  /\ request # None
  /\ \E i, j, k \in 1..Len(results) :
        /\ i < j
        /\ results[i].score = results[j].score
        /\ results[i] # results[j]
        /\ results[k].score # results[i].score

\* the first n entries of a list: none for n <= 0
FirstEntries(list, n) ==
  IF n <= 0 THEN <<>> ELSE SubSeq(list, 1, IF n < Len(list) THEN n ELSE Len(list))
Ranked ==
  SortByScore(Matches(indexer.components, lower(request.query), request.component_type))

\* C3: search returns at most `limit` results, the first `limit` entries of
\* the ranked list, for every integer limit, 0 and negative ones included.
C3_TruncatedToLimit ==
  request # None =>
    /\ Len(results) <= (IF request.limit > 0 THEN request.limit ELSE 0)
    /\ results = FirstEntries(Ranked, request.limit)

PassesFilter(c, component_type) ==
  component_type = None \/ c.type = component_type[1]

\* C4: with a kind filter given every result has that kind; and a component
\* is in the untruncated result exactly if it passes the filter and its
\* score is greater than 0.
C4_KindFilter ==
  request # None =>
    /\ request.component_type # None =>
          \A i \in 1..Len(results) : results[i].type = request.component_type[1]
    /\ Len(results) < request.limit =>
          \A k \in 1..Len(indexer.components) :
             (\E i \in 1..Len(results) : asdict(results[i]) = asdict(indexer.components[k]))
               <=> /\ PassesFilter(indexer.components[k], request.component_type)
                   /\ FirstRuleScore(indexer.components[k], lower(request.query)) > 0

\* the index a complete build of the tree gives
FullBuild == index_codebase(NewIndexer, fs, "none").self
Tables(self) ==
  [routes |-> self.routes, models |-> self.models, tables |-> self.tables,
   functions |-> self.functions, classes |-> self.classes]
SameIndex(a, b) == a.components = b.components /\ Tables(a) = Tables(b)

\* C5: loading the snapshot save_index wrote of a built index gives an index
\* with the same component sequence, and the stats computed from it are
\* the stats that were saved.
C5_RoundTrip ==
  ( /\ runs > 0
    /\ indexer = FullBuild
    /\ save_index(indexer, snapshot, FALSE).ok
    /\ snapshot = save_index(indexer, snapshot, FALSE).file
    /\ loaded = Some(load_index(snapshot)) )
  => /\ loaded[1].ok
     /\ loaded[1].v.components = indexer.components
     /\ StatsOf(loaded[1].v) = snapshot.data.stats

RoutePathOf(c) == Get(c.metadata, "route_path", StrVal(c.name))

\* C6: with the component sequence fixed, building the lookup tables of a
\* built index again gives the maps of the previous build; of the route
\* components of one path the routes map holds the last.
C6_RebuildSameTables ==
  (runs > 0 /\ indexer = FullBuild) =>
    /\ Tables(_build_lookup_tables(indexer)) = Tables(indexer)
    /\ \A i \in 1..Len(indexer.components) :
          indexer.components[i].type = "route" =>
            indexer.routes[RoutePathOf(indexer.components[i])] >= i

\* C7: while rebuild_index is in flight the global _indexer is the complete
\* old index or the complete new one, never an empty or partly built one.
C7_RebuildOldOrNew ==
  (task.name = "rebuild_index" /\ pc \in {"index", "save"}) =>
    \/ _indexer = prior
    \/ _indexer # None /\ SameIndex(_indexer[1], FullBuild)

\* C8: after a build that failed part way, in rebuild_index or on first use
\* in get_indexer, the global _indexer is the previous index or none (or
\* the complete new one when only the save failed), never the indexer of
\* the failed run.
C8_FailedBuildKeepsPrevious ==
  (pc = "idle" /\ response.kind = "error"
     /\ response.at \in {"index_codebase", "save_index"}) =>
    \/ _indexer = prior
    \/ _indexer = None
    \/ SameIndex(_indexer[1], FullBuild)

\* the files index_codebase hands to the extractors, and what each yields
IndexedFiles(tree) == PythonFiles(tree) \o SqlFiles(tree) \o MarkdownFiles(tree)
OutcomeOf(f) ==
  IF EndsWith(FileName(f.parts), <<".","p","y">>) THEN PythonFileOutcome(f)
  ELSE IF EndsWith(FileName(f.parts), <<".","s","q","l">>) THEN SqlFileOutcome(f)
  ELSE MarkdownFileOutcome(f)

\* C9: after index_codebase on a new indexer, a file whose reading or
\* extraction failed has no component and is not in files_indexed, and
\* every other file of the run is indexed.
C9_FailedFileLeavesNothing ==
  (runs > 0 /\ indexer = FullBuild) =>
    \A k \in 1..Len(IndexedFiles(fs)) :
       LET f == IndexedFiles(fs)[k]
       IN IF OutcomeOf(f).ok
            THEN RelPath(f.parts) \in indexer.files_indexed
            ELSE /\ RelPath(f.parts) \notin indexer.files_indexed
                 /\ \A i \in 1..Len(indexer.components) :
                       indexer.components[i].filepath # RelPath(f.parts)

\* C10: get_indexer hands a query an index loaded from the snapshot only if
\* the snapshot is a document of the snapshot schema; when load_index
\* fails the global _indexer holds no index.
C10_BadSnapshotNotLoaded ==
  /\ (pc = "query" /\ prior = None) => WellFormed(snapshot)
  /\ (pc = "idle" /\ response.kind = "error" /\ response.at = "load_index") =>
        _indexer = None

\* the kinds of components: the enumeration of the type argument
RecognisedKinds == {"function", "class", "route", "model", "table", "file"}
\* the answers a valid call gets: results, a listing, or none found
ValidAnswers == {"results", "no_results", "listing"}

\* C11: a search_code or list_components call whose kind is not one of the
\* recognised kinds is answered with a response that is not one of the
\* valid answers (in particular not "no results"), and no step of its
\* handling changes the index the server holds or the snapshot file.
C11_UnknownKindRejected ==
  [][(/\ pc # "idle"
      /\ task.name \in {"search_code", "list_components"}
      /\ task.type # None
      /\ task.type[1] \notin RecognisedKinds)
       => /\ _indexer' = _indexer
          /\ snapshot' = snapshot
          /\ pc' = "idle" => response'.kind \notin ValidAnswers]_vars

\* the names of the tools of list_tools
SevenTools ==
  {"search_code", "find_route", "find_model", "find_table",
   "list_components", "explain_file", "rebuild_index"}

\* C12: a call of a tool that is not one of the seven is answered at once
\* with "Unknown tool": the one step of its handling gives that response
\* and leaves the index the server holds and the snapshot file as they
\* were, whether or not an index was loaded before.
C12_UnknownToolAnswered ==
  [][(pc # "idle" /\ task.name \notin SevenTools)
       => /\ pc' = "idle"
          /\ response'.kind = "unknown_tool"
          /\ _indexer' = _indexer
          /\ snapshot' = snapshot]_vars
C12_Witness ==
  /\ pc = "idle"
  /\ task.name \in OtherTools
  /\ response.kind = "unknown_tool"
  /\ _indexer = None
  /\ ~snapshot.exists

\* C13: every component of the index, of every kind and of every file
\* (empty files included), has line_start >= 1 and line_end >= line_start.
C13_LinesOrdered ==
  \A i \in 1..Len(indexer.components) :
     /\ indexer.components[i].line_start >= 1
     /\ indexer.components[i].line_end >= indexer.components[i].line_start

\* the positions of the file-kind components of an index, and those of one path
FileComponents(self) ==
  {i \in 1..Len(self.components) : self.components[i].type = "file"}
FileComponentsOf(self, path) ==
  {i \in FileComponents(self) : self.components[i].filepath = path}

\* C14: after any sequence of index_codebase runs the component sequence
\* holds exactly one file-kind component for each path in files_indexed
\* and none for any other path, so the number of file-kind components
\* equals stats.files_indexed.
C14_OneFilePerIndexedPath ==
  /\ \A path \in indexer.files_indexed :
        Cardinality(FileComponentsOf(indexer, path)) = 1
  /\ \A i \in FileComponents(indexer) :
        indexer.components[i].filepath \in indexer.files_indexed
  /\ Cardinality(FileComponents(indexer)) = StatsOf(indexer).files_indexed

\* rebuild_index has answered with the statistics of the new index, built
\* from the tree as it is
Rebuilt ==
  /\ pc = "idle"
  /\ task.name = "rebuild_index"
  /\ response.kind = "rebuilt"
  /\ origin.held = Some(fs)
\* the index held before the rebuild was built from the tree without its k-th file
AddedSince(k) ==
  /\ prior # None
  /\ origin.prior = Some(SubSeq(fs, 1, k - 1) \o SubSeq(fs, k + 1, Len(fs)))
\* a component of the same kind, name, path and lines
Present(comp, self) ==
  \E j \in 1..Len(self.components) :
     /\ self.components[j].type = comp.type
     /\ self.components[j].name = comp.name
     /\ self.components[j].filepath = comp.filepath
     /\ self.components[j].parent_class = comp.parent_class
     /\ self.components[j].line_start = comp.line_start
     /\ self.components[j].line_end = comp.line_end
\* one more file indexed, and every component of the old index kept
OneMoreFile(old, new) ==
  /\ StatsOf(new).files_indexed = StatsOf(old).files_indexed + 1
  /\ \A i \in 1..Len(old.components) : Present(old.components[i], new)
\* the file is one an extractor of index_codebase reads and parses
Indexable(f) ==
  /\ IndexedFiles(<<f>>) # <<>>
  /\ OutcomeOf(f).counted

\* C15 as stated: a rebuild after one file was added to the tree, whatever
\* the file, gives files_indexed one greater than before and keeps every
\* component of the previous index.
C15_AnyAddedFileCounted ==
  Rebuilt => \A k \in 1..Len(fs) : AddedSince(k) => OneMoreFile(prior[1], _indexer[1])

\* C15: a rebuild after one file was added to the tree, the file being one
\* that index_codebase reads and parses (its suffix indexed, its path not
\* excluded), gives files_indexed one greater than that of the index built
\* before, and every component of that index is present in the new one
\* with the same kind, name, path and lines.
C15_AddedFileCounted ==
  Rebuilt => \A k \in 1..Len(fs) :
     (AddedSince(k) /\ Indexable(fs[k])) => OneMoreFile(prior[1], _indexer[1])
C15_Witness ==
  /\ Rebuilt
  /\ Len(fs) = 2
  /\ AddedSince(1)
  /\ Indexable(fs[1])
  /\ prior[1].components # <<>>
  /\ OneMoreFile(prior[1], _indexer[1])

\* index_codebase on a new indexer over the tree, its nodes allocated at heap
BuildOf(tree, heap) == index_codebase(NewIndexer, Parsed(tree, heap), "none").self
\* the indexer holds what one run over the tree as it is gave
FirstRunDone == runs > 0 /\ \E heap \in Addresses : indexer = BuildOf(fs, heap)

\* C16: when the tree is indexed a second time, unchanged, the component
\* sequence of the second run is that of the first, the same length,
\* order and fields, both for a second run on a new indexer and for a
\* second index_codebase call on the same indexer.
C16_SecondRunIdentical ==
  FirstRunDone =>
    \A heap \in Addresses :
       /\ BuildOf(fs, heap).components = indexer.components
       /\ index_codebase(indexer, Parsed(fs, heap), "none").self.components
            = indexer.components

\* the function declarations of a syntax tree, methods included, and the
\* name of the class that declares one (empty for a free-standing function)
FunctionDecls(tree) ==
  {n \in 1..Len(Walk(tree)) : Walk(tree)[n].t = "FunctionDef"}
EnclosingType(tree, node) ==
  IF \E n \in 1..Len(Walk(tree)) :
        /\ Walk(tree)[n].t = "ClassDef"
        /\ \E b \in 1..Len(Walk(tree)[n].body) : Walk(tree)[n].body[b] = node
    THEN (CHOOSE c \in Range(Walk(tree)) :
            /\ c.t = "ClassDef"
            /\ \E b \in 1..Len(c.body) : c.body[b] = node).name
  ELSE <<>>
\* the function and route components the index holds for a declaration
ComponentsOf(self, f, node) ==
  {i \in 1..Len(self.components) :
     /\ self.components[i].type \in {"function", "route"}
     /\ self.components[i].filepath = RelPath(f.parts)
     /\ self.components[i].name = node.name
     /\ self.components[i].line_start = node.lineno}

\* C17: after a run over the tree, every function declaration of every
\* Python file whose extraction ran to its end, methods included, has
\* exactly one function or route component, whose parent_class is the
\* name of the declaring class for a method and empty for a free-standing
\* function.
C17_OneComponentPerFunction ==
  FirstRunDone =>
    \A k \in 1..Len(PythonFiles(fs)) :
       PythonFileOutcome(PythonFiles(fs)[k]).ok =>
         \A n \in FunctionDecls(PythonFiles(fs)[k].tree) :
            LET f == PythonFiles(fs)[k]
                node == Walk(f.tree)[n]
            IN /\ Cardinality(ComponentsOf(indexer, f, node)) = 1
               /\ \A i \in ComponentsOf(indexer, f, node) :
                     indexer.components[i].parent_class = EnclosingType(f.tree, node)

\* the components an empty query selects under a kind filter, each with
\* the score of the rules: 100 for an empty name, else 50 (the empty
\* string is part of every name)
Kept(comp, component_type) ==
  component_type = None \/ component_type[1] = "" \/ comp.type = component_type[1]
EmptyQueryScore(comp) == IF comp.name = <<>> THEN 100 ELSE 50
EmptyQueryRanked(self, component_type) ==
  LET kept == SelectSeq(self.components, LAMBDA c : Kept(c, component_type))
      scored == [i \in 1..Len(kept) |-> ResultOf(kept[i], EmptyQueryScore(kept[i]))]
  IN WithScore(scored, 100) \o WithScore(scored, 50)
\* the length of list[:limit]
SliceLen(n, limit) ==
  IF limit >= 0 THEN (IF limit < n THEN limit ELSE n)
  ELSE (IF n + limit > 0 THEN n + limit ELSE 0)

\* C18: a search call with the empty query returns, for every index, kind
\* filter and limit, a list that depends on these alone: the components
\* the filter keeps, each with the score the rules give it, in rank
\* order, cut as list[:limit] cuts; the call has no other outcome.
C18_EmptyQueryDefined ==
  [][(request = None /\ request' # None /\ request'.query = <<>>)
       => /\ IsPrefix(results', EmptyQueryRanked(indexer, request'.component_type))
          /\ Len(results')
               = SliceLen(Len(EmptyQueryRanked(indexer, request'.component_type)),
                          request'.limit)]_vars
C18_Witness ==
  /\ request # None
  /\ request.query = <<>>
  /\ request.component_type = Some("function")
  /\ request.limit = -1
  /\ Len(results) >= 2
  /\ \A i \in 1..Len(results) : results[i].score = 50 /\ results[i].type = "function"

\* a class component (retyped or not) one of whose base names contains 'Model'
ModelBased(comp) ==
  /\ comp.type \in {"class", "model"}
  /\ "bases" \in DOMAIN comp.metadata
  /\ \E b \in 1..Len(comp.metadata.bases) : Contains(comp.metadata.bases[b], <<"M","o","d","e","l">>)
\* the last position of a set of positions
Last(positions) == CHOOSE p \in positions : \A q \in positions : q <= p
\* the tables of an index agree with its component sequence on classes and models
ClassTablesBuilt(self) ==
  /\ \A i \in 1..Len(self.components) :
        ModelBased(self.components[i]) =>
          /\ self.components[i].type = "model"
          /\ self.components[i].name \in DOMAIN self.models
          /\ self.models[self.components[i].name]
               = Last({j \in 1..Len(self.components) :
                         /\ ModelBased(self.components[j])
                         /\ self.components[j].name = self.components[i].name})
  /\ \A name \in DOMAIN self.classes : ~ModelBased(self.components[self.classes[name]])
  /\ \A i \in 1..Len(self.components) :
        self.components[i].type = "class" =>
          /\ ~ModelBased(self.components[i])
          /\ self.components[i].name \in DOMAIN self.classes
          /\ self.classes[self.components[i].name]
               = Last({j \in 1..Len(self.components) :
                         /\ self.components[j].type = "class"
                         /\ self.components[j].name = self.components[i].name})

\* C19: when index_codebase has built the lookup tables, every class
\* component with a base name containing 'Model' has kind 'model' and the
\* models map holds under its name the last such component; none of them
\* is in the classes map; and every component of kind 'class' has no such
\* base and the classes map holds under its name the last class component
\* of that name.
C19_ModelsAndClasses ==
  [][(/\ runs' = runs + 1
      /\ \E heap \in Addresses :
            indexer' = index_codebase(indexer, Parsed(fs, heap), "none").self)
       => ClassTablesBuilt(indexer')]_vars
C19_Witness ==
  /\ runs = 2
  /\ ClassTablesBuilt(indexer)
  /\ \E name \in DOMAIN indexer.models : name \in DOMAIN indexer.classes
  /\ \E i, j \in 1..Len(indexer.components) :
        /\ i < j
        /\ indexer.components[i].type = "model"
        /\ indexer.components[j].type = "model"
        /\ indexer.components[i].name = indexer.components[j].name
        /\ indexer.models[indexer.components[i].name] = j
  /\ \E i, j \in 1..Len(indexer.components) :
        /\ i < j
        /\ indexer.components[i].type = "class"
        /\ indexer.components[j].type = "class"
        /\ indexer.components[i].name = indexer.components[j].name
        /\ indexer.classes[indexer.components[i].name] = j

\* the snapshot file is a document whose component records are those of the index
SnapshotHolds(self) ==
  /\ snapshot.exists
  /\ snapshot.json
  /\ "components" \in DOMAIN snapshot.data
  /\ snapshot.data.components
       = [i \in 1..Len(self.components) |-> asdict(self.components[i])]

\* C20: between tool calls, whenever the global _indexer is set, the
\* snapshot file exists and its component sequence is that of the index
\* in memory, whether the index was loaded, built on first use or rebuilt.
C20_SnapshotMatchesIndex ==
  (pc = "idle" /\ _indexer # None) => SnapshotHolds(_indexer[1])
====
